---- MODULE Spec2Model ----
(***************************************************************************)
(* AI HustleHub: the Streamlit dashboard of src/AI_HustleHub.py and the    *)
(* desktop lead list of src/lead_processor_module.py.                      *)
(*                                                                         *)
(* Text is a sequence of tokens.  A token is one character ("SP" a space,  *)
(* "NL" a newline, any other short token a visible character) or one of    *)
(* the fixed literals of the source, kept whole.  An absent value (None)   *)
(* and the empty string are both falsy in every test the source makes on   *)
(* them and are both written <<>>.                                         *)
(*                                                                         *)
(* A run follows the user through one panel of the page (panel); the       *)
(* panels share the session counter api_calls and nothing else a handler   *)
(* of another panel reads, the topic file excepted, which the four topic   *)
(* tools of the "topic" panel share.  The desktop window is a program of   *)
(* its own, the panel "desktop".                                           *)
(***************************************************************************)
EXTENDS Integers, Sequences, FiniteSets, TLC

VARIABLES
    panel,        \* the panel of the page this session works in
    clientReady,  \* _gemini_client is not None
    api_calls,    \* st.session_state.api_calls
    disk,         \* what a write to the working directory does in this session
    topicFile,    \* hustle_topic.txt
    outputCsv,    \* output.csv
    processedCsv, \* processed_leads.csv
    last,         \* the last button press: inputs, calls made, value stored in outputs
    LEAD_DATA,     \* lead_processor_module.LEAD_DATA
    listbox_leads, \* the entries of the list widget
    text_output,   \* the text of the output box
    label_status,  \* the text of the status bar
    leadsCsv,      \* leads.csv as the most recent load met it (absent before any load)
    event          \* the last callback of the desktop window and how it ended

files == <<topicFile, outputCsv, processedCsv>>
desktop == <<LEAD_DATA, listbox_leads, text_output, label_status, leadsCsv, event>>
vars == <<panel, clientReady, api_calls, disk, topicFile, outputCsv, processedCsv, last,
          LEAD_DATA, listbox_leads, text_output, label_status, leadsCsv, event>>

\* ---------------------------------------------------------------- bounds
MaxCalls == 2     \* api_calls is followed up to this value
MaxRows == 2      \* rows of a table
MaxHeadings == 12 \* h1-h3 elements of a page
MaxLinks == 16    \* a elements of a page

\* ------------------------------------------------------- fixed limits
TopHeadings == 10
HeadingMax == 120
MetaMax == 300
TopLinks == 15
LinkMax == 80

\* ------------------------------------------------------------------ text
Min(a, b) == IF a < b THEN a ELSE b

IsWs(t) == t \in {"SP", "NL"}

RECURSIVE LStrip(_)
LStrip(s) == IF s # <<>> /\ IsWs(Head(s)) THEN LStrip(Tail(s)) ELSE s

RECURSIVE RStrip(_)
RStrip(s) ==
    IF s # <<>> /\ IsWs(s[Len(s)]) THEN RStrip(SubSeq(s, 1, Len(s) - 1)) ELSE s

\* str.strip()
Strip(s) == RStrip(LStrip(s))

\* s[:n]
Truncate(s, n) == SubSeq(s, 1, Min(Len(s), n))

ErrNoClient == "ERROR: Gemini client not initialized. Set GEMINI_API_KEY."
ErrEmpty    == "ERROR: Empty response from model."
ErrNoTopic  == "ERROR: No topic provided and 'hustle_topic.txt' not found."
ErrPrefix   == "ERROR: "

\* tokens that begin with the five letters ERROR
ErrorHeads ==
    {ErrNoClient, ErrEmpty, ErrNoTopic, ErrPrefix, "ERROR",
     "ERROR: Failed to read input.csv: ", "ERROR: Failed to read leads.csv: ",
     "ERROR: No data provided. Upload a CSV or place 'input.csv' in working directory.",
     "ERROR: No leads data found. Upload a CSV or place 'leads.csv' in working directory.",
     "ERROR: Missing required columns. Need ",
     "ERROR: WEBSITE (URL) is required.",
     "ERROR: Please acknowledge you are responsible for checking the target site's robots.txt and Terms before scraping.",
     "ERROR: Request failed: "}

\* str.startswith("ERROR")
StartsWithError(s) == s # <<>> /\ s[1] \in ErrorHeads

\* ------------------------------------------------- the generation service
\* What one generate_content call does: answer with text, answer with
\* whitespace only, or raise.
Outcomes == {"text", "blank", "raise"}

\* resp.text of an answer: the service's text for the prompt, padded with the
\* whitespace call_gemini strips
RespText(prompt, o) ==
    IF o = "text" THEN <<"SP", "Re:">> \o prompt \o <<"NL">> ELSE <<"SP">>

\* _count_api_call(ok): the increment of api_calls
CountApiCall(ok) == IF ok THEN 1 ELSE 0

\* call_gemini retrying once after an exception
CallGeminiRetries(prompt, o) ==
    IF ~clientReady
    THEN [prompt |-> prompt, o |-> o, ret |-> <<ErrNoClient>>, counted |-> 0, sent |-> 0]
    ELSE IF o = "raise"
    THEN [prompt |-> prompt, o |-> o, ret |-> <<ErrPrefix, "exc">>, counted |-> 0, sent |-> 2]
    ELSE LET text == Strip(RespText(prompt, o))
         IN  [prompt |-> prompt, o |-> o,
              ret |-> IF text # <<>> THEN text ELSE <<ErrEmpty>>,
              counted |-> CountApiCall(TRUE), sent |-> 1]

\* call_gemini(prompt) when the service does o: the value returned, the
\* increment of api_calls, and whether a request went out
CallGemini(prompt, o) ==
    IF ~clientReady
    THEN [prompt |-> prompt, o |-> o, ret |-> <<ErrNoClient>>, counted |-> 0, sent |-> 0]
    ELSE IF o = "raise"
    THEN [prompt |-> prompt, o |-> o, ret |-> <<ErrPrefix, "exc">>, counted |-> 0, sent |-> 1]
    ELSE LET text == Strip(RespText(prompt, o))
         IN  [prompt |-> prompt, o |-> o,
              ret |-> IF text # <<>> THEN text ELSE <<ErrEmpty>>,
              counted |-> CountApiCall(TRUE), sent |-> 1]

RECURSIVE SumCounted(_)
SumCounted(calls) ==
    IF calls = <<>> THEN 0 ELSE Head(calls).counted + SumCounted(Tail(calls))

RECURSIVE SumSent(_)
SumSent(calls) ==
    IF calls = <<>> THEN 0 ELSE Head(calls).sent + SumSent(Tail(calls))

\* ------------------------------------------------------- the topic file
NoFile == [exists |-> FALSE, readable |-> FALSE, text |-> <<>>]
File(text) == [exists |-> TRUE, readable |-> TRUE, text |-> text]
Unreadable(text) == [exists |-> TRUE, readable |-> FALSE, text |-> text]

TopicFiles == {NoFile, File(<<"SP", "f", "NL">>), File(<<"NL">>), Unreadable(<<"f">>)}

\* load_topic_from_file(): the value returned and the reads made
LoadTopicFromFile ==
    IF topicFile.exists
    THEN IF topicFile.readable
         THEN [topic |-> Strip(topicFile.text), reads |-> 1]
         ELSE [topic |-> <<>>, reads |-> 1]
    ELSE [topic |-> <<>>, reads |-> 0]

\* A write succeeds, or raises before the file is opened (a read-only
\* directory) and leaves the file as it was, or raises after open() truncated
\* it (a full disk).
DiskStates == {"ok", "readonly", "full"}

\* save_topic_to_file(topic): the file afterwards; the exception of a failed
\* write is swallowed
SaveTopicToFile(topic) ==
    CASE disk = "ok"       -> File(Strip(topic))
      [] disk = "readonly" -> topicFile
      [] disk = "full"     -> [topicFile EXCEPT !.exists = TRUE, !.text = <<>>]

\* --------------------------------------------------------- topic tools
EchoPrefix == <<"(Using provided topic)", "NL">>
TopicPrompt == <<"You are an expert market analyst. [...] Output ONLY the niche idea itself.">>

LongPrompt(topic) ==
    <<"As a professional Ghostwriter, [...] for the niche: ">> \o topic
        \o <<". The outline should be SEO-friendly and ready for script creation.">>
ShortPrompt(topic) ==
    <<"Based on the niche: ">> \o topic
        \o <<", generate a 5-point FAQ list and a 3-sentence summary [...]">>
CaptionsPrompt(topic) ==
    <<"Generate three high-impact captions for the niche: ">> \o topic
        \o <<". One for Instagram, [...] with platform headers.">>

ToolPrompt(tool, topic) ==
    CASE tool = "long_form"  -> LongPrompt(topic)
      [] tool = "short_form" -> ShortPrompt(topic)
      [] tool = "captions"   -> CaptionsPrompt(topic)

\* fn_topic_generator(topic_override): the value returned and the calls made
FnTopicGenerator(topic_override, o) ==
    IF topic_override # <<>>
    THEN [out |-> EchoPrefix \o topic_override, calls |-> <<>>]
    ELSE LET c == CallGemini(TopicPrompt, o) IN [out |-> c.ret, calls |-> <<c>>]

\* the topic file consulted before the explicit input
ResolveTopicFileFirst(topic) ==
    IF LoadTopicFromFile.topic # <<>> THEN LoadTopicFromFile
    ELSE [topic |-> topic, reads |-> LoadTopicFromFile.reads]

\* the first four lines of fn_long_form, fn_short_form and fn_captions: the
\* topic used (<<>> when there is none) and the file reads made
ResolveTopic(topic) ==
    IF topic # <<>> THEN [topic |-> topic, reads |-> 0]
    ELSE LoadTopicFromFile

\* the tool without its "if not topic: return" lines
FnTopicToolNoCheck(tool, topic, o) ==
    LET r == ResolveTopic(topic)
        c == CallGemini(ToolPrompt(tool, r.topic), o)
    IN  [out |-> c.ret, calls |-> <<c>>, reads |-> r.reads, topic |-> r.topic]

\* fn_long_form / fn_short_form / fn_captions
FnTopicTool(tool, topic, o) ==
    LET r == ResolveTopic(topic)
    IN  IF r.topic = <<>>
        THEN [out |-> <<ErrNoTopic>>, calls |-> <<>>, reads |-> r.reads, topic |-> <<>>]
        ELSE LET c == CallGemini(ToolPrompt(tool, r.topic), o)
             IN  [out |-> c.ret, calls |-> <<c>>, reads |-> r.reads, topic |-> r.topic]

\* ------------------------------------------------------------- tables
\* A cell is a string or NaN (an empty CSV field); a row maps the column
\* names to cells; a DataFrame is its column names in order and its rows.
StrCell(v) == [nan |-> FALSE, v |-> v]
NaN == [nan |-> TRUE, v |-> <<>>]

\* str(cell)
Str(cell) == IF cell.nan THEN <<"nan">> ELSE cell.v

Range(s) == {s[i] : i \in 1..Len(s)}

NoDf == [isdf |-> FALSE, text |-> <<>>]
ErrorText(text) == [isdf |-> FALSE, text |-> text]

\* row i of an input table: every cell names its column and its row; the
\* last column's cell of an even row is empty
CellOf(cols, j, i) ==
    IF j = Len(cols) /\ i % 2 = 0 THEN NaN ELSE StrCell(<<cols[j], ToString(i)>>)

TableOf(cols, n) ==
    [isdf |-> TRUE, cols |-> cols,
     rows |-> [i \in 1..n |->
                 [c \in Range(cols) |->
                     CellOf(cols, CHOOSE j \in 1..Len(cols) : cols[j] = c, i)]]]

\* df_has_columns(df, cols)
DfHasColumns(df, cols) == \A c \in Range(cols) : c \in Range(df.cols)

\* a column always added at the end, also when the name is taken
SetColumnAppends(df, name, values) ==
    [isdf |-> TRUE,
     cols |-> Append(df.cols, name),
     rows |-> [i \in 1..Len(df.rows) |->
                 [c \in Range(df.cols) \cup {name} |->
                     IF c = name THEN StrCell(values[i]) ELSE df.rows[i][c]]]]

\* df[name] = values: the column is replaced when the table has one of that
\* name and appended otherwise
SetColumn(df, name, values) ==
    [isdf |-> TRUE,
     cols |-> IF name \in Range(df.cols) THEN df.cols ELSE Append(df.cols, name),
     rows |-> [i \in 1..Len(df.rows) |->
                 [c \in Range(df.cols) \cup {name} |->
                     IF c = name THEN StrCell(values[i]) ELSE df.rows[i][c]]]]

\* df[name] = scalar
SetColumnScalar(df, name, value) ==
    SetColumn(df, name, [i \in 1..Len(df.rows) |-> value])

\* df.to_csv(index=False): the header line and one line per row, NaN written
\* as an empty field
ToCsv(df) ==
    [header |-> df.cols,
     lines |-> [i \in 1..Len(df.rows) |->
                  [j \in 1..Len(df.cols) |->
                      IF df.rows[i][df.cols[j]].nan THEN <<>>
                      ELSE df.rows[i][df.cols[j]].v]]]

\* an input file: absent, present and unreadable by pd.read_csv, or a table
NoCsv == [exists |-> FALSE, readable |-> FALSE, table |-> NoDf]
BadCsv == [exists |-> TRUE, readable |-> FALSE, table |-> NoDf]
GoodCsv(df) == [exists |-> TRUE, readable |-> TRUE, table |-> df]

\* an output file: absent, cut short by a failed write, or a whole CSV
NoOut == [exists |-> FALSE, whole |-> FALSE, csv |-> <<>>]
CutOut == [exists |-> TRUE, whole |-> FALSE, csv |-> <<>>]
WholeOut(csv) == [exists |-> TRUE, whole |-> TRUE, csv |-> <<csv>>]

\* df.to_csv(path) inside try/except: pass: the file afterwards
WriteCsv(old, df) ==
    CASE disk = "ok"       -> WholeOut(ToCsv(df))
      [] disk = "readonly" -> old
      [] disk = "full"     -> CutOut

ProductNeeded == <<"Title", "Features", "Keywords">>
LeadsNeeded == <<"Business_Name", "Product_Focus", "AI_Pitch_Sample">>

ErrReadInput == <<"ERROR: Failed to read input.csv: ", "exc">>
ErrNoData == <<"ERROR: No data provided. Upload a CSV or place 'input.csv' in working directory.">>
ErrReadLeads == <<"ERROR: Failed to read leads.csv: ", "exc">>
ErrNoLeads == <<"ERROR: No leads data found. Upload a CSV or place 'leads.csv' in working directory.">>
ErrMissing(needed) == <<"ERROR: Missing required columns. Need ">> \o needed

ProductPrompt(row, cpd) ==
    <<"You are an expert e-commerce copywriter. [...]", "NL", "Product: ">>
        \o Str(row["Title"]) \o <<"NL", "Features: ">>
        \o Str(row["Features"]) \o <<"NL", "Keywords: ">>
        \o Str(row["Keywords"]) \o <<"NL">>
        \o (IF cpd # <<>>
            THEN <<"Consider this current/previous description for improvement ideas: ">>
                     \o cpd \o <<"NL">>
            ELSE <<>>)
        \o <<"Output ONLY the new description.">>

LeadPrompt(row) ==
    <<"You are a professional outreach specialist. [...]", "NL", "Target Business: ">>
        \o Str(row["Business_Name"]) \o <<"NL", "Their Focus: ">>
        \o Str(row["Product_Focus"]) \o <<"NL", "Your Offer (based on their focus): ">>
        \o Str(row["AI_Pitch_Sample"]) \o <<"NL">>
        \o <<"Start professionally. [...] Output ONLY the email body.">>

\* the loop leaving at the first row whose generation failed
RowCallsStopAtError(prompts, outs) ==
    [i \in 1..Len(prompts) |->
        IF \E k \in 1..(i - 1) : StartsWithError(CallGemini(prompts[k], outs[k]).ret)
        THEN [prompt |-> prompts[i], o |-> outs[i], ret |-> <<>>, counted |-> 0, sent |-> 0]
        ELSE CallGemini(prompts[i], outs[i])]

\* the for loop over df.iterrows(): one call per row, in row order
RowCalls(prompts, outs) ==
    [i \in 1..Len(prompts) |-> CallGemini(prompts[i], outs[i])]

Rets(calls) == [i \in 1..Len(calls) |-> calls[i].ret]

RECURSIVE SetScalars(_, _)
SetScalars(df, scalars) ==
    IF scalars = <<>> THEN df
    ELSE SetScalars(SetColumnScalar(df, Head(scalars)[1], Head(scalars)[2]), Tail(scalars))

\* a tool's return before the loop: an error string, nothing called or written
Failed(text, reads, old) ==
    [out |-> ErrorText(text), calls |-> <<>>, reads |-> reads, writes |-> 0, file |-> old]

\* a table without the needed columns passed through unaugmented
AugmentPartial(df, needed, prompts, outs, column, scalars, old, reads) ==
    IF ~DfHasColumns(df, needed)
    THEN [out |-> df, calls |-> <<>>, reads |-> reads, writes |-> 1,
          file |-> WriteCsv(old, df)]
    ELSE LET calls == RowCalls(prompts, outs)
             d1 == SetScalars(SetColumn(df, column, Rets(calls)), scalars)
         IN  [out |-> d1, calls |-> calls, reads |-> reads, writes |-> 1,
              file |-> WriteCsv(old, d1)]

\* the exception of a failed write returned as an error string
AugmentWriteErrorReturned(df, needed, prompts, outs, column, scalars, old, reads) ==
    IF ~DfHasColumns(df, needed)
    THEN Failed(ErrMissing(needed), reads, old)
    ELSE LET calls == RowCalls(prompts, outs)
             d1 == SetScalars(SetColumn(df, column, Rets(calls)), scalars)
         IN  [out |-> IF disk = "ok" THEN d1 ELSE ErrorText(<<ErrPrefix, "exc">>),
              calls |-> calls, reads |-> reads, writes |-> 1,
              file |-> WriteCsv(old, d1)]

\* the part the two table tools share once df is loaded: the column check,
\* the loop, the new columns (scalars: those set to one value), the write
Augment(df, needed, prompts, outs, column, scalars, old, reads) ==
    IF ~DfHasColumns(df, needed)
    THEN Failed(ErrMissing(needed), reads, old)
    ELSE LET calls == RowCalls(prompts, outs)
             d1 == SetScalars(SetColumn(df, column, Rets(calls)), scalars)
         IN  [out |-> d1, calls |-> calls, reads |-> reads, writes |-> 1,
              file |-> WriteCsv(old, d1)]

\* the table a tool works on: the uploaded one, else the one of the file
LoadDf(uploaded_csv, file) ==
    IF uploaded_csv.isdf THEN [df |-> uploaded_csv, reads |-> 0, err |-> "none"]
    ELSE IF file.exists
    THEN IF file.readable THEN [df |-> file.table, reads |-> 1, err |-> "none"]
         ELSE [df |-> NoDf, reads |-> 1, err |-> "read"]
    ELSE [df |-> NoDf, reads |-> 0, err |-> "nodata"]

\* prompts of the rows of a table that has the needed columns
ProductPrompts(df, cpd) ==
    IF DfHasColumns(df, ProductNeeded)
    THEN [i \in 1..Len(df.rows) |-> ProductPrompt(df.rows[i], cpd)] ELSE <<>>
LeadPrompts(df) ==
    IF DfHasColumns(df, LeadsNeeded)
    THEN [i \in 1..Len(df.rows) |-> LeadPrompt(df.rows[i])] ELSE <<>>

\* fn_product_automator(cpd, uploaded_csv), input.csv being file_
FnProductAutomator(cpd, uploaded_csv, file_, outs) ==
    LET l == LoadDf(uploaded_csv, file_)
    IN  CASE l.err = "read"   -> Failed(ErrReadInput, l.reads, outputCsv)
          [] l.err = "nodata" -> Failed(ErrNoData, l.reads, outputCsv)
          [] OTHER -> Augment(l.df, ProductNeeded, ProductPrompts(l.df, cpd), outs,
                              "Generated_Description", <<>>, outputCsv, l.reads)

SingleLead(business_name) ==
    [isdf |-> TRUE, cols |-> LeadsNeeded,
     rows |-> << [c \in Range(LeadsNeeded) |->
                    CASE c = "Business_Name"   -> StrCell(business_name)
                      [] c = "Product_Focus"   -> StrCell(<<"N/A">>)
                      [] c = "AI_Pitch_Sample" -> StrCell(<<"Custom AI services.">>)] >>]

\* the table fn_leads_processor works on
LeadsDf(business_name, uploaded_csv, file_) ==
    LET l == LoadDf(uploaded_csv, file_)
    IN  IF l.err = "nodata" /\ business_name # <<>>
        THEN [df |-> SingleLead(business_name), reads |-> 0, err |-> "none"]
        ELSE l

\* fn_leads_processor(business_name, uploaded_csv), leads.csv being file_
FnLeadsProcessor(business_name, uploaded_csv, file_, outs) ==
    LET l == LeadsDf(business_name, uploaded_csv, file_)
    IN  CASE l.err = "read"   -> Failed(ErrReadLeads, l.reads, processedCsv)
          [] l.err = "nodata" -> Failed(ErrNoLeads, l.reads, processedCsv)
          [] OTHER -> Augment(l.df, LeadsNeeded, LeadPrompts(l.df), outs,
                              "Generated_Email", << <<"Status", <<"Processed">> >> >>,
                              processedCsv, l.reads)

\* ------------------------------------------------------------ scraper
ErrUrlRequired == <<"ERROR: WEBSITE (URL) is required.">>
ErrAcknowledge == <<"ERROR: Please acknowledge you are responsible for checking the target site's robots.txt and Terms before scraping.">>
ErrRequest == <<"ERROR: Request failed: ", "exc">>

\* tag.name.upper()
Upper(name) == CASE name = "h1" -> "H1" [] name = "h2" -> "H2" [] name = "h3" -> "H3"

\* tag.get_text(separator=" ", strip=True) of an element holding one text node
GetText(raw) == Strip(raw)

\* the loop over soup.find_all(["h1", "h2", "h3"])[:10]
RECURSIVE HeaderEntries(_)
HeaderEntries(tags) ==
    IF tags = <<>> THEN <<>>
    ELSE LET txt == Truncate(GetText(Head(tags).text), HeadingMax)
         IN  (IF txt # <<>> THEN << <<Upper(Head(tags).name), ": ">> \o txt >> ELSE <<>>)
                 \o HeaderEntries(Tail(tags))

\* the empty headings dropped before the first ten are taken
HeadersPreviewFilterFirst(headings) == Truncate(HeaderEntries(headings), TopHeadings)

HeadersPreview(headings) == HeaderEntries(Truncate(headings, TopHeadings))

\* the loop over soup.find_all("a", href=True)[:15]
LinksPreview(anchors) ==
    LET top == Truncate(anchors, TopLinks)
    IN  [i \in 1..Len(top) |->
            [text |-> Truncate(GetText(top[i].text), LinkMax), href |-> top[i].href]]

\* the title: soup.title.string.strip(), "" without a title or without a string
TitleOf(page) == IF page.title # <<>> THEN Strip(page.title) ELSE <<>>

\* the meta description: the name=description tag or, when the page has none,
\* the og:description tag; its content cut to 300 characters
MetaTag(page) == IF page.metaName.present THEN page.metaName ELSE page.metaOg
MetaDescription(page) ==
    IF MetaTag(page).present /\ MetaTag(page).content # <<>>
    THEN Truncate(MetaTag(page).content, MetaMax) ELSE <<>>

\* the acknowledgment tested before the URL
FnScraperAckFirst(url, acknowledge, http) ==
    IF ~acknowledge THEN [out |-> ErrorText(ErrAcknowledge), requests |-> 0]
    ELSE IF url = <<>> THEN [out |-> ErrorText(ErrUrlRequired), requests |-> 0]
    ELSE [out |-> ErrorText(ErrRequest), requests |-> 1]

\* fn_scraper(url, acknowledge) when requests.get answers with http: the
\* value returned and the requests sent
FnScraper(url, acknowledge, http) ==
    IF url = <<>> THEN [out |-> ErrorText(ErrUrlRequired), requests |-> 0]
    ELSE IF ~acknowledge THEN [out |-> ErrorText(ErrAcknowledge), requests |-> 0]
    ELSE IF http.raises \/ http.code >= 400
    THEN [out |-> ErrorText(ErrRequest), requests |-> 1]
    ELSE [out |-> [isdf |-> FALSE, isdict |-> TRUE, status |-> "ok",
                   title |-> TitleOf(http.page),
                   meta_description |-> MetaDescription(http.page),
                   headers_preview |-> HeadersPreview(http.page.headings),
                   links_preview |-> LinksPreview(http.page.anchors),
                   http_status |-> http.code, final_url |-> http.url],
          requests |-> 1]

\* ---------------------------------------------------------- the inputs
\* the tables a user may upload or keep in the working directory
ProductColumns == {ProductNeeded, <<"Title", "Features">>,
                   <<"Title", "Features", "Keywords", "Generated_Description">>}
LeadColumns == {LeadsNeeded, <<"Business_Name", "Product_Focus">>,
                <<"Business_Name", "Product_Focus", "AI_Pitch_Sample", "Generated_Email">>}
\* with exactly the needed columns: 0..MaxRows rows; with other columns: one row
Tables(columns, needed) ==
    {TableOf(needed, n) : n \in 0..MaxRows}
        \cup {TableOf(cols, 1) : cols \in columns \ {needed}}
InputFiles(columns, needed) ==
    {NoCsv, BadCsv} \cup {GoodCsv(TableOf(cols, 1)) : cols \in columns}

\* an output file as an earlier session left it: none, or a table's CSV
OutputFiles(needed) == {NoOut, WholeOut(ToCsv(TableOf(needed, 1)))}

\* the upload and the file of the working directory; the file is not looked
\* at when a table is uploaded
Sources(columns, needed) ==
    {<<up, NoCsv>> : up \in Tables(columns, needed)}
        \cup {<<NoDf, f>> : f \in InputFiles(columns, needed)}

\* what the user may type into a topic box
TopicInputs == {<<>>, <<"a">>, <<"SP", "a", "b", "SP">>, <<"SP">>, <<"ERROR", "a">>}
CpdInputs == {<<>>, <<"c">>}
BusinessNames == {<<>>, <<"Acme">>}

\* a text of len characters that starts with the mark i
TextOf(i, len) == [k \in 1..len |-> IF k = 1 THEN ToString(i) ELSE "x"]

\* a page's h1-h3 elements in document order: n of them, the one at
\* position empty (if any) holding whitespace only, the one at position long
\* (if any) holding more than HeadingMax characters, the others their position
HeadingsOf(n, empty, long) ==
    [i \in 1..n |->
        [name |-> <<"h1", "h2", "h3">>[(i % 3) + 1],
         text |-> IF i = empty THEN <<"SP">>
                  ELSE IF i = long THEN <<"NL">> \o TextOf(i, HeadingMax + 1)
                  ELSE <<"SP", ToString(i), "SP">>]]

AnchorsOf(n) ==
    [i \in 1..n |->
        [text |-> IF i = 1 THEN TextOf(i, LinkMax + 1) ELSE <<ToString(i), "SP">>,
         href |-> <<"/", ToString(i)>>]]

NoMeta == [present |-> FALSE, content |-> <<>>]
Meta(content) == [present |-> TRUE, content |-> content]

\* the shapes of the h1-h3 list: up to MaxHeadings elements, the
\* whitespace-only one (if any) first, at position TopHeadings or last, the
\* second one (if any) long
HeadingShapes ==
    {<<n, e, l>> \in (0..MaxHeadings) \X (0..MaxHeadings) \X {0, 2} :
        /\ e \in {0, 1, TopHeadings, n}
        /\ e <= n /\ l <= n /\ (l = 0 => n < 2)}

\* title, name=description tag, og:description tag, number of a elements
PageRests ==
    {<< <<>>, NoMeta, NoMeta, 0 >>,
     << <<"SP", "T", "NL">>, Meta(TextOf(0, MetaMax + 1)), NoMeta, MaxLinks >>,
     << <<"T">>, NoMeta, Meta(<<"og">>), 1 >>,
     << <<>>, Meta(<<>>), Meta(<<"og">>), MaxLinks >>}

Pages ==
    {[title |-> r[1], metaName |-> r[2], metaOg |-> r[3],
      headings |-> HeadingsOf(h[1], h[2], h[3]), anchors |-> AnchorsOf(r[4])] :
        r \in PageRests, h \in HeadingShapes}

NoPage == [title |-> <<>>, metaName |-> NoMeta, metaOg |-> NoMeta,
           headings |-> <<>>, anchors |-> <<>>]

\* what requests.get and raise_for_status meet: a transport failure, an
\* error status, or a page
HttpAnswers ==
    {[raises |-> TRUE, code |-> 0, url |-> <<>>, page |-> NoPage],
     [raises |-> FALSE, code |-> 404, url |-> <<"u">>, page |-> NoPage]}
        \cup {[raises |-> FALSE, code |-> 200, url |-> <<"u", "/">>, page |-> pg] : pg \in Pages}

Urls == {<<>>, <<"u">>}

NoPress == [tool |-> "none"]

\* Outcomes of the calls a press will make.  A call that sends nothing (no
\* client) consumes no outcome; its entry is held at "text".
OutcomeSeqs(n) == IF clientReady THEN [1..n -> Outcomes] ELSE [1..n -> {"text"}]

\* --------------------------------------------- the desktop lead list
\* src/lead_processor_module.py
MaxLeads == 2     \* data lines of leads.csv

\* a value of a row dict: a string, or None for a field the line lacks
Field(v) == [none |-> FALSE, v |-> v]
None == [none |-> TRUE, v |-> <<>>]

\* f"{value}"
Fmt(cell) == IF cell.none THEN <<"None">> ELSE cell.v

\* str.upper()
UpperToken(t) ==
    CASE t = "b" -> "B" [] t = "e" -> "E" [] t = "f" -> "F" [] t = "p" -> "P"
      [] t = "x" -> "X" [] t = "y" -> "Y" [] OTHER -> t
StrUpper(s) == [i \in 1..Len(s) |-> UpperToken(s[i])]

\* str.replace(old, new), old one token
RECURSIVE Replace(_, _, _)
Replace(s, old, new) ==
    IF s = <<>> THEN <<>>
    ELSE (IF Head(s) = old THEN new ELSE <<Head(s)>>) \o Replace(Tail(s), old, new)

Placeholder == "*[AI_PITCH_SAMPLE_PLACEHOLDER]*"
EMAIL_TEMPLATE ==
    <<"NL", "Hello, [...] for your premium line:**", "NL", Placeholder, "NL", "NL",
      "This service ensures [...] Thank you for your time,", "NL", "RuralJoe", "NL">>

\* leads.csv: absent; present and not to be opened; or a header line and data
\* lines, each the sequence of its fields (<<>> a blank line), of which line
\* bad, when not 0, raises as it is read (an undecodable byte, a csv.Error)
NoLeadsCsv == [exists |-> FALSE, opens |-> FALSE, header |-> <<>>, lines |-> <<>>, bad |-> 0]
LockedLeadsCsv == [exists |-> TRUE, opens |-> FALSE, header |-> <<>>, lines |-> <<>>, bad |-> 0]
LeadsCsv(header, lines, bad) ==
    [exists |-> TRUE, opens |-> TRUE, header |-> header, lines |-> lines, bad |-> bad]

\* one row of csv.DictReader: the header's names as keys, None for the
\* fields a short line lacks
DictRow(header, line) ==
    [c \in Range(header) |->
        LET j == CHOOSE k \in 1..Len(header) : header[k] = c
        IN  IF j <= Len(line) THEN Field(line[j]) ELSE None]

\* csv.DictReader(file) read to the end: one dict per line, blank lines skipped
RECURSIVE DictReader(_, _)
DictReader(header, lines) ==
    IF lines = <<>> THEN <<>>
    ELSE IF Head(lines) = <<>> THEN DictReader(header, Tail(lines))
    ELSE <<DictRow(header, Head(lines))>> \o DictReader(header, Tail(lines))

\* the rows appended before the with-block is left: all of them, or those of
\* the lines ahead of the line that raises
RowsRead(file) ==
    IF ~file.exists \/ ~file.opens THEN <<>>
    ELSE IF file.bad > 0 THEN DictReader(file.header, SubSeq(file.lines, 1, file.bad - 1))
    ELSE DictReader(file.header, file.lines)

\* update_status(message)
UpdateStatus(message) == <<"Status: ">> \o message

StatusReady == <<"Status: ", "Ready. Load 'leads.csv'.">>
MsgNotFound == <<"ERROR: 'leads.csv' not found. Please create the file.">>
MsgLoadError == <<"ERROR loading CSV: ", "exc">>
MsgLoaded(n) == <<"Successfully loaded ", ToString(n), " leads.">>
MsgPleaseSelect == <<"Please select a lead to generate the email.">>
MsgGenerationError == <<"Generation ERROR: ", "exc">>
MsgGenerated(name) == <<"Email generated for: ">> \o name

\* f"{i+1}. {lead.get('Business_Name', 'N/A')}", i counted from 0
ListEntry(i, lead) ==
    <<ToString(i + 1), ". ">>
        \o (IF "Business_Name" \in DOMAIN lead THEN Fmt(lead["Business_Name"]) ELSE <<"N/A">>)

\* the listbox after delete(0, END) and one insert per lead
ListboxOf(data) == [k \in 1..Len(data) |-> ListEntry(k - 1, data[k])]

\* the except clauses of load_leads_from_csv: the status set for an exception
LoadFailed(exc) ==
    IF exc = "FileNotFoundError" THEN UpdateStatus(MsgNotFound) ELSE UpdateStatus(MsgLoadError)

\* the exception the try block of a load ends with, "none" when it ends well
LoadException(file) ==
    IF ~file.exists THEN "FileNotFoundError"
    ELSE IF ~file.opens THEN "PermissionError"
    ELSE IF file.bad > 0 THEN "UnicodeDecodeError"
    ELSE "none"

\* the load without its "LEAD_DATA = []" line
LoadLeadsKeepsPrior(file) ==
    LET exc == LoadException(file)
        data == LEAD_DATA \o RowsRead(file)
    IN  IF exc = "none"
        THEN [data |-> data, listbox |-> ListboxOf(data),
              status |-> UpdateStatus(MsgLoaded(Len(data))), exc |-> exc, raised |-> FALSE]
        ELSE [data |-> data, listbox |-> listbox_leads,
              status |-> LoadFailed(exc), exc |-> exc, raised |-> FALSE]

\* load_leads_from_csv() when leads.csv is file: LEAD_DATA, the listbox and
\* the status afterwards.  The listbox is rebuilt only when every line was
\* read; a load that raises leaves it as it was.
LoadLeadsFromCsv(file) ==
    LET exc == LoadException(file)
        data == RowsRead(file)
    IN  IF exc = "none"
        THEN [data |-> data, listbox |-> ListboxOf(data),
              status |-> UpdateStatus(MsgLoaded(Len(data))), exc |-> exc, raised |-> FALSE]
        ELSE [data |-> data, listbox |-> listbox_leads,
              status |-> LoadFailed(exc), exc |-> exc, raised |-> FALSE]

\* the exception the try block of generate_email_on_click ends with for the
\* selection cursel (<<>> or <<index>>, index counted from 0), "none" when it
\* ends well; every one is raised before the output box is touched
GenerateException(cursel) ==
    IF cursel = <<>> THEN "IndexError"
    ELSE IF cursel[1] >= Len(LEAD_DATA) THEN "IndexError"
    ELSE LET lead == LEAD_DATA[cursel[1] + 1]
         IN  IF "Product_Focus" \notin DOMAIN lead THEN "KeyError"
             ELSE IF "AI_Pitch_Sample" \notin DOMAIN lead THEN "KeyError"
             ELSE IF lead["AI_Pitch_Sample"].none THEN "TypeError"
             ELSE IF "Business_Name" \notin DOMAIN lead THEN "KeyError"
             ELSE IF lead["Business_Name"].none THEN "AttributeError"
             ELSE IF "Contact_Email" \notin DOMAIN lead THEN "KeyError"
             ELSE "none"

Dashes == "--------------------------------------------------"

\* final_output of generate_email_on_click
FinalOutput(lead) ==
    LET subject_line == <<"Local AI: Automating Descriptions for Your ">>
                            \o Fmt(lead["Product_Focus"])
        email_body == Replace(EMAIL_TEMPLATE, Placeholder, lead["AI_Pitch_Sample"].v)
    IN  <<"**LEAD: ">> \o StrUpper(lead["Business_Name"].v) \o <<" **", "NL">>
            \o <<Dashes, "NL">>
            \o <<"**TO:** ">> \o Fmt(lead["Contact_Email"]) \o <<"NL">>
            \o <<"**SUBJECT:** ">> \o subject_line \o <<"NL">>
            \o <<Dashes, "NL">>
            \o <<"*** COPY EMAIL BODY BELOW ***", "NL", "NL">>
            \o email_body

\* the except clauses of generate_email_on_click
GenerateFailed(exc) ==
    IF exc = "IndexError" THEN UpdateStatus(MsgPleaseSelect)
    ELSE UpdateStatus(MsgGenerationError)

\* the handler with the output box emptied before the selection is read
GenerateClearsFirst(cursel) ==
    LET exc == GenerateException(cursel)
    IN  IF exc = "none"
        THEN LET lead == LEAD_DATA[cursel[1] + 1]
             IN  [text |-> FinalOutput(lead),
                  status |-> UpdateStatus(MsgGenerated(lead["Business_Name"].v)),
                  exc |-> exc, raised |-> FALSE]
        ELSE [text |-> <<>>, status |-> GenerateFailed(exc),
              exc |-> exc, raised |-> FALSE]

\* generate_email_on_click(event) with curselection() = cursel: the output
\* box and the status afterwards; no exception leaves the handler
GenerateEmailOnClick(cursel) ==
    LET exc == GenerateException(cursel)
    IN  IF exc = "none"
        THEN LET lead == LEAD_DATA[cursel[1] + 1]
             IN  [text |-> FinalOutput(lead),
                  status |-> UpdateStatus(MsgGenerated(lead["Business_Name"].v)),
                  exc |-> exc, raised |-> FALSE]
        ELSE [text |-> text_output, status |-> GenerateFailed(exc),
              exc |-> exc, raised |-> FALSE]

\* ---- the files a load may meet
LeadHeader == <<"Business_Name", "Contact_Email", "Product_Focus", "AI_Pitch_Sample">>
NoNameHeader == <<"Contact_Email", "Product_Focus", "AI_Pitch_Sample">>

Letter(col) ==
    CASE col = "Business_Name" -> "b" [] col = "Contact_Email" -> "e"
      [] col = "Product_Focus" -> "f" [] col = "AI_Pitch_Sample" -> "p"

\* line k of edition v of the file: every field names its column, its line
\* and the edition
FullLine(header, k, v) == [j \in 1..Len(header) |-> <<Letter(header[j]), ToString(k), v>>]

FullLines(header, n, v) == [k \in 1..n |-> FullLine(header, k, v)]

\* the lines with line 1 replaced
WithFirst(lines, line) == [k \in 1..Len(lines) |-> IF k = 1 THEN line ELSE lines[k]]

LeadFiles ==
    {NoLeadsCsv, LockedLeadsCsv}
    \cup UNION {{LeadsCsv(LeadHeader, FullLines(LeadHeader, n, v), bad) :
                    v \in {"x", "y"}, bad \in {0, n}} : n \in 0..MaxLeads}
    \cup {LeadsCsv(LeadHeader, WithFirst(FullLines(LeadHeader, n, "x"), line), 0) :
            n \in 1..MaxLeads, line \in {<<>>, <<<<"b", "1", "x">>>>}}
    \cup {LeadsCsv(NoNameHeader, FullLines(NoNameHeader, n, "x"), 0) : n \in 1..MaxLeads}

NoEvent == [kind |-> "none"]

\* ---- callbacks of the desktop window
\* the "Load Leads.csv" button
BtnLoad ==
    /\ panel = "desktop"
    /\ \E file \in LeadFiles :
       \E r \in {LoadLeadsFromCsv(file)} :
         /\ LEAD_DATA' = r.data
         /\ listbox_leads' = r.listbox
         /\ label_status' = r.status
         /\ leadsCsv' = file
         /\ event' = [kind |-> "load", exc |-> r.exc, raised |-> r.raised]
    /\ UNCHANGED <<panel, clientReady, api_calls, disk, files, last, text_output>>

\* <<ListboxSelect>>: an entry of the listbox was clicked, or the selection
\* was taken away
ListboxSelect ==
    /\ panel = "desktop"
    /\ \E cursel \in {<<>>} \cup {<<i>> : i \in 0..(Len(listbox_leads) - 1)} :
       \E r \in {GenerateEmailOnClick(cursel)} :
         /\ text_output' = r.text
         /\ label_status' = r.status
         /\ event' = [kind |-> "select", cursel |-> cursel, exc |-> r.exc,
                      raised |-> r.raised]
    /\ UNCHANGED <<panel, clientReady, api_calls, disk, files, last,
                   LEAD_DATA, listbox_leads, leadsCsv>>

\* ------------------------------------------------------------ handlers
\* the "Generate Niche / Topic" button
BtnTopicGen ==
    /\ panel = "topic"
    /\ api_calls < MaxCalls
    /\ \E inp \in TopicInputs :
       \E outs \in OutcomeSeqs(IF inp = <<>> THEN 1 ELSE 0) :
       \E r \in {FnTopicGenerator(inp, IF outs = <<>> THEN "text" ELSE outs[1])} :
         LET saves == r.out # <<>> /\ ~StartsWithError(r.out)
         IN  /\ api_calls' = api_calls + SumCounted(r.calls)
             /\ topicFile' = IF saves THEN SaveTopicToFile(r.out) ELSE topicFile
             /\ last' = [tool |-> "topic", input |-> inp, out |-> r.out,
                         calls |-> r.calls, reads |-> 0,
                         writes |-> IF saves THEN 1 ELSE 0,
                         before |-> api_calls, fileBefore |-> topicFile]
    /\ UNCHANGED <<panel, clientReady, disk, outputCsv, processedCsv, desktop>>

\* the long-form, short-form and captions buttons
BtnTopicTool(tool) ==
    /\ panel = "topic"
    /\ api_calls < MaxCalls
    /\ \E inp \in TopicInputs :
       \E outs \in OutcomeSeqs(IF ResolveTopic(inp).topic = <<>> THEN 0 ELSE 1) :
       \E r \in {FnTopicTool(tool, inp, IF outs = <<>> THEN "text" ELSE outs[1])} :
             /\ api_calls' = api_calls + SumCounted(r.calls)
             /\ last' = [tool |-> tool, input |-> inp, out |-> r.out,
                         calls |-> r.calls, reads |-> r.reads, writes |-> 0,
                         topic |-> r.topic,
                         before |-> api_calls, fileBefore |-> topicFile]
    /\ UNCHANGED <<panel, clientReady, disk, files, desktop>>

BtnLongForm == BtnTopicTool("long_form")
BtnShortForm == BtnTopicTool("short_form")
BtnCaps == BtnTopicTool("captions")

\* the rows the loop of a table tool will visit, known once df is loaded
RowsToVisit(df, needed) ==
    IF df.isdf /\ DfHasColumns(df, needed) THEN Len(df.rows) ELSE 0

\* the "Generate Product Descriptions" button
BtnProducts ==
    /\ panel = "products"
    /\ \E cpd \in CpdInputs, src \in Sources(ProductColumns, ProductNeeded) :
       \E l \in {LoadDf(src[1], src[2])} :
       \E n \in {RowsToVisit(l.df, ProductNeeded)} :
         /\ api_calls + n <= MaxCalls
         /\ \E outs \in OutcomeSeqs(n) :
            \E r \in {FnProductAutomator(cpd, src[1], src[2], outs)} :
              /\ api_calls' = api_calls + SumCounted(r.calls)
              /\ outputCsv' = r.file
              /\ last' = [tool |-> "products", cpd |-> cpd, uploaded |-> src[1],
                          file |-> src[2], df |-> l.df, outs |-> outs,
                          out |-> r.out, calls |-> r.calls, reads |-> r.reads,
                          writes |-> r.writes,
                          before |-> api_calls, fileBefore |-> outputCsv]
    /\ UNCHANGED <<panel, clientReady, disk, topicFile, processedCsv, desktop>>

\* the "Generate Outreach Emails" button
BtnLeads ==
    /\ panel = "leads"
    /\ \E bn \in BusinessNames, src \in Sources(LeadColumns, LeadsNeeded) :
       \E l \in {LeadsDf(bn, src[1], src[2])} :
       \E n \in {RowsToVisit(l.df, LeadsNeeded)} :
         /\ api_calls + n <= MaxCalls
         /\ \E outs \in OutcomeSeqs(n) :
            \E r \in {FnLeadsProcessor(bn, src[1], src[2], outs)} :
              /\ api_calls' = api_calls + SumCounted(r.calls)
              /\ processedCsv' = r.file
              /\ last' = [tool |-> "leads", business_name |-> bn, uploaded |-> src[1],
                          file |-> src[2], df |-> l.df, outs |-> outs,
                          out |-> r.out, calls |-> r.calls, reads |-> r.reads,
                          writes |-> r.writes,
                          before |-> api_calls, fileBefore |-> processedCsv]
    /\ UNCHANGED <<panel, clientReady, disk, topicFile, outputCsv, desktop>>

\* the "Generate Scrape / Data Snapshot" button.  A press that sends no
\* request meets no answer.
BtnScrape ==
    /\ panel = "scraper"
    /\ \E url \in Urls, ack \in BOOLEAN :
       \E http \in (IF url # <<>> /\ ack THEN HttpAnswers
                    ELSE {[raises |-> TRUE, code |-> 0, url |-> <<>>, page |-> NoPage]}) :
       \E r \in {FnScraper(url, ack, http)} :
         last' = [tool |-> "scraper", url |-> url, ack |-> ack, http |-> http,
                  out |-> r.out, calls |-> <<>>, requests |-> r.requests,
                  reads |-> 0, writes |-> 0, before |-> api_calls]
    /\ UNCHANGED <<panel, clientReady, api_calls, disk, files, desktop>>

Panels == {"topic", "products", "leads", "scraper", "desktop"}

\* The state after the script's first run: the counter at 0, nothing pressed,
\* the client built or not, and the working directory as the user left it.
\* What no handler of the session's panel reads (a file, the disk, the
\* client) is held at one value.
Init ==
    /\ panel \in Panels
    /\ clientReady \in (IF panel \in {"scraper", "desktop"} THEN {TRUE} ELSE BOOLEAN)
    /\ api_calls = 0
    /\ disk \in (IF panel \in {"scraper", "desktop"} THEN {"ok"} ELSE DiskStates)
    /\ topicFile \in (IF panel = "topic" THEN TopicFiles ELSE {NoFile})
    /\ outputCsv \in (IF panel = "products" THEN OutputFiles(ProductNeeded) ELSE {NoOut})
    /\ processedCsv \in (IF panel = "leads" THEN OutputFiles(LeadsNeeded) ELSE {NoOut})
    /\ last = NoPress
    /\ LEAD_DATA = <<>>
    /\ listbox_leads = <<>>
    /\ text_output = <<>>
    /\ label_status = StatusReady
    /\ leadsCsv = NoLeadsCsv
    /\ event = NoEvent

Next ==
    \/ BtnTopicGen
    \/ BtnLongForm
    \/ BtnShortForm
    \/ BtnCaps
    \/ BtnProducts
    \/ BtnLeads
    \/ BtnScrape
    \/ BtnLoad
    \/ ListboxSelect

Spec == Init /\ [][Next]_vars

\* ================================================================ claims
TopicTools == {"long_form", "short_form", "captions"}
TableTools == {"products", "leads"}

NeededOf(tool) == IF tool = "products" THEN ProductNeeded ELSE LeadsNeeded
GeneratedOf(tool) == IF tool = "products" THEN "Generated_Description" ELSE "Generated_Email"
AddedOf(tool) ==
    IF tool = "products" THEN {"Generated_Description"} ELSE {"Generated_Email", "Status"}
FileOf(tool) == IF tool = "products" THEN outputCsv ELSE processedCsv

\* the prompt of row i of the table the last press worked on
RowPrompt(i) ==
    IF last.tool = "products" THEN ProductPrompt(last.df.rows[i], last.cpd)
    ELSE LeadPrompt(last.df.rows[i])

\* the last press ran a table tool on a table with the required columns
AugmentedPress ==
    /\ last.tool \in TableTools
    /\ last.df.isdf
    /\ DfHasColumns(last.df, NeededOf(last.tool))

\* calls of the last press that came back with non-empty text
NonEmptyAnswers == Cardinality({i \in 1..Len(last.calls) :
                                   last.calls[i].sent >= 1 /\ last.calls[i].o = "text"})

\* C1 (as claimed): over the calls of a press, api_calls grows by one for each
\* call that returned non-empty text and by nothing for a call that ended in
\* an error or an empty response.
C1_CounterCountsNonEmptyOnly ==
    last.tool # "none" => api_calls = last.before + NonEmptyAnswers

\* C2: on a table with the required columns and N rows a table tool returns
\* N rows in input order; the generated cell of row i is what call_gemini
\* returned for the prompt of input row i, the ERROR text when it failed; every
\* row is called for, also after a row that failed.
C2_EveryRowInOrder ==
    AugmentedPress =>
        /\ last.out.isdf
        /\ Len(last.out.rows) = Len(last.df.rows)
        /\ Len(last.calls) = Len(last.df.rows)
        /\ \A i \in 1..Len(last.df.rows) :
             /\ last.calls[i].prompt = RowPrompt(i)
             /\ last.calls[i].o = last.outs[i]
             /\ clientReady => last.calls[i].sent >= 1
             /\ last.out.rows[i][GeneratedOf(last.tool)] = StrCell(last.calls[i].ret)
             /\ (clientReady /\ last.outs[i] = "text")
                    => last.calls[i].ret = <<"Re:">> \o RowPrompt(i)
             /\ (~clientReady \/ last.outs[i] # "text") => StartsWithError(last.calls[i].ret)
             /\ \A c \in Range(NeededOf(last.tool)) :
                    last.out.rows[i][c] = last.df.rows[i][c]

C2_Witness ==
    /\ AugmentedPress /\ last.tool = "products" /\ clientReady
    /\ last.outs = <<"raise", "text">>
    /\ last.out.isdf /\ Len(last.out.rows) = 2

\* C3 (as claimed): the returned table has the input's columns plus exactly
\* one new column, and every column of the input keeps its values, also when
\* the input carries a column of the generated column's name.
C3_ExactlyOneNewColumn ==
    AugmentedPress =>
        /\ last.out.isdf
        /\ Range(last.df.cols) \subseteq Range(last.out.cols)
        /\ Cardinality(Range(last.out.cols)) = Cardinality(Range(last.df.cols)) + 1
        /\ \A i \in 1..Len(last.df.rows) : \A c \in Range(last.df.cols) :
               last.out.rows[i][c] = last.df.rows[i][c]

\* the columns of AddedOf the input does not have yet, in the order set
NewColumns(tool, cols) ==
    SelectSeq(IF tool = "products" THEN <<"Generated_Description">>
              ELSE <<"Generated_Email", "Status">>,
              LAMBDA c : c \notin Range(cols))

\* C3 (amended): the returned table's columns are the input's, in their
\* order, followed by those of Generated_Description (fn_product_automator)
\* or Generated_Email and Status (fn_leads_processor) the input did not have;
\* a column of the input with one of these names is overwritten, every other
\* column of the input keeps its values.
C3_AddedColumns ==
    AugmentedPress =>
        /\ last.out.isdf
        /\ last.out.cols = last.df.cols \o NewColumns(last.tool, last.df.cols)
        /\ \A i \in 1..Len(last.df.rows) :
             /\ DOMAIN last.out.rows[i] = Range(last.df.cols) \cup AddedOf(last.tool)
             /\ \A c \in Range(last.df.cols) \ AddedOf(last.tool) :
                    last.out.rows[i][c] = last.df.rows[i][c]
             /\ last.out.rows[i][GeneratedOf(last.tool)] = StrCell(last.calls[i].ret)
             /\ last.tool = "leads" => last.out.rows[i]["Status"] = StrCell(<<"Processed">>)

C3_Witness ==
    /\ AugmentedPress /\ last.tool = "products"
    /\ "Generated_Description" \in Range(last.df.cols)
    /\ last.out.isdf /\ last.out.cols = last.df.cols
    /\ last.out.rows[1]["Generated_Description"] # last.df.rows[1]["Generated_Description"]

\* C4: a table tool given (or loading) a table that lacks a required column
\* returns an ERROR string, calls the service for no row, leaves api_calls as
\* it was and does not write its output file.
C4_MissingColumnsRejected ==
    (last.tool \in TableTools /\ last.df.isdf /\ ~DfHasColumns(last.df, NeededOf(last.tool)))
        => /\ ~last.out.isdf
           /\ StartsWithError(last.out.text)
           /\ last.calls = <<>>
           /\ api_calls = last.before
           /\ last.writes = 0
           /\ FileOf(last.tool) = last.fileBefore

C4_Witness ==
    /\ last.tool = "leads" /\ last.df.isdf /\ ~last.uploaded.isdf
    /\ ~DfHasColumns(last.df, LeadsNeeded)
    /\ ~last.out.isdf /\ disk = "ok"

\* C5: a topic tool called without a topic while hustle_topic.txt does not
\* exist returns the fixed "no topic" error, makes no generation call and
\* leaves api_calls as it was.
C5_NoTopicNoCall ==
    (last.tool \in TopicTools /\ last.input = <<>> /\ ~last.fileBefore.exists)
        => /\ last.out = <<"ERROR: No topic provided and 'hustle_topic.txt' not found.">>
           /\ last.calls = <<>>
           /\ api_calls = last.before

C5_Witness ==
    /\ last.tool = "captions" /\ last.input = <<>> /\ ~last.fileBefore.exists
    /\ clientReady /\ StartsWithError(last.out)

\* C6: a non-empty explicit topic is used as typed and the topic file is not
\* read, whatever it holds: fn_topic_generator returns the echo prefix
\* followed by the input and calls nothing, the topic tools build their prompt
\* around exactly the input.
C6_ExplicitTopicWins ==
    (last.tool \in TopicTools \cup {"topic"} /\ last.input # <<>>)
        => /\ last.reads = 0
           /\ last.tool = "topic" =>
                /\ last.out = <<"(Using provided topic)", "NL">> \o last.input
                /\ last.calls = <<>>
           /\ last.tool \in TopicTools =>
                /\ Len(last.calls) = 1
                /\ last.calls[1].prompt = ToolPrompt(last.tool, last.input)
                /\ last.topic = last.input

C6_Witness ==
    /\ last.tool = "long_form" /\ last.input = <<"SP", "a", "b", "SP">>
    /\ last.fileBefore.exists /\ last.fileBefore.readable
    /\ Strip(last.fileBefore.text) # <<>>
    /\ last.calls # <<>>

\* blocking operations of the last press
NetCalls == SumSent(last.calls) + (IF last.tool = "scraper" THEN last.requests ELSE 0)

\* C7 (as claimed): a press makes at most one blocking network call or one
\* file read or write.
C7_AtMostOneBlockingOperation ==
    last.tool # "none" => NetCalls + last.reads + last.writes <= 1

\* C7 (amended): a press makes at most one file read, at most one file write
\* and, besides, at most one network call, or for fn_product_automator and
\* fn_leads_processor on a table of N rows at most N, one per row.
C7_BoundedBlockingOperations ==
    last.tool # "none" =>
        /\ last.reads <= 1
        /\ last.writes <= 1
        /\ last.tool \notin TableTools => NetCalls <= 1
        /\ last.tool \in TableTools =>
             NetCalls <= (IF last.df.isdf THEN Len(last.df.rows) ELSE 0)

C7_Witness ==
    /\ last.tool = "products" /\ last.reads = 0 /\ last.writes = 1
    /\ Len(last.df.rows) = 2 /\ NetCalls = 2
    /\ \E i \in 1..2 : last.outs[i] = "raise"

\* the headings among the first ten elements whose text is not empty
Kept(headings) ==
    {i \in 1..Min(Len(headings), TopHeadings) : GetText(headings[i].text) # <<>>}

\* the position in the page of the heading an entry was made from
PositionOf(entry) == CHOOSE i \in 1..(MaxHeadings + 1) : ToString(i) = entry[3]

ScrapedPage == last.tool = "scraper" /\ ~last.out.isdf /\ "isdict" \in DOMAIN last.out

\* C8 (as claimed): of a page with more than 10 headings exactly 10 entries
\* are returned, in document order, each text at most 120 characters long,
\* also when some of the first 10 have empty text.
C8_ExactlyTenHeadings ==
    (ScrapedPage /\ Len(last.http.page.headings) > TopHeadings)
        => /\ Len(last.out.headers_preview) = TopHeadings
           /\ \A k \in 1..Len(last.out.headers_preview) :
                  Len(last.out.headers_preview[k]) - 2 <= HeadingMax

\* C8 (amended): of a page with more than 10 headings one entry is returned
\* for each of the first 10 heading elements whose text is not empty, so 10
\* at most, in document order, each text cut to at most 120 characters;
\* no element after the tenth is returned.
C8_FirstTenNonEmptyHeadings ==
    (ScrapedPage /\ Len(last.http.page.headings) > TopHeadings)
        => LET hp == last.out.headers_preview
               hs == last.http.page.headings
           IN  /\ Len(hp) = Cardinality(Kept(hs))
               /\ \A k \in 1..Len(hp) :
                    /\ PositionOf(hp[k]) \in Kept(hs)
                    /\ hp[k][1] = Upper(hs[PositionOf(hp[k])].name)
                    /\ Len(hp[k]) - 2 <= HeadingMax
                    /\ Len(hp[k]) - 2 = Min(Len(GetText(hs[PositionOf(hp[k])].text)), HeadingMax)
                    /\ \A j \in 1..(k - 1) : PositionOf(hp[j]) < PositionOf(hp[k])

C8_Witness ==
    /\ ScrapedPage /\ Len(last.http.page.headings) > TopHeadings
    /\ GetText(last.http.page.headings[1].text) = <<>>
    /\ Len(last.http.page.headings[2].text) > HeadingMax
    /\ Len(last.out.headers_preview) = TopHeadings - 1

\* C9: fn_scraper answers an empty URL with the URL-required error and a
\* non-empty URL without acknowledgment with the acknowledgment error, a
\* different one, and sends no request in either case; with both missing the
\* URL error is the one returned.
C9_ScraperPreconditions ==
    last.tool = "scraper" =>
        /\ last.url = <<>> =>
             /\ last.out = ErrorText(<<"ERROR: WEBSITE (URL) is required.">>)
             /\ last.requests = 0
        /\ (last.url # <<>> /\ ~last.ack) =>
             /\ ~last.out.isdf /\ ~("isdict" \in DOMAIN last.out)
             /\ StartsWithError(last.out.text)
             /\ last.out.text # <<"ERROR: WEBSITE (URL) is required.">>
             /\ last.out.text # <<"ERROR: Request failed: ", "exc">>
             /\ last.requests = 0
        /\ (last.url # <<>> /\ last.ack) => last.requests = 1

C9_Witness ==
    /\ last.tool = "scraper" /\ last.url = <<>> /\ ~last.ack
    /\ last.requests = 0

\* the augmented table: the input's cells, the generated column holding what
\* the calls returned, Status set for the leads
FullTable ==
    [isdf |-> TRUE,
     cols |-> last.df.cols \o NewColumns(last.tool, last.df.cols),
     rows |-> [i \in 1..Len(last.df.rows) |->
                 [c \in Range(last.df.cols) \cup AddedOf(last.tool) |->
                     IF c = GeneratedOf(last.tool) THEN StrCell(last.calls[i].ret)
                     ELSE IF c = "Status" /\ last.tool = "leads" THEN StrCell(<<"Processed">>)
                     ELSE last.df.rows[i][c]]]]

\* C10: whether the write of output.csv / processed_leads.csv succeeds or
\* fails, a table tool returns the full augmented table, the same in both
\* cases, and no error; after a failed write the file is as it was before
\* (absent, or an older table) or truncated.
C10_WriteFailureIgnored ==
    AugmentedPress =>
        /\ last.out = FullTable
        /\ last.writes = 1
        /\ disk = "ok" => FileOf(last.tool) = WholeOut(ToCsv(last.out))
        /\ disk = "readonly" => FileOf(last.tool) = last.fileBefore
        /\ disk = "full" => FileOf(last.tool) = CutOut

C10_Witness ==
    /\ AugmentedPress /\ last.tool = "leads" /\ disk = "readonly"
    /\ last.out.isdf /\ Len(last.out.rows) = 2
    /\ processedCsv.exists /\ processedCsv # WholeOut(ToCsv(last.out))

\* ---------------------------------------------------- the desktop window
\* the lines of leads.csv the most recent load got through
LinesRead(file) ==
    IF ~file.exists \/ ~file.opens THEN <<>>
    ELSE IF file.bad > 0 THEN SubSeq(file.lines, 1, file.bad - 1)
    ELSE file.lines

\* the lines among them that carry a row
DataLines(lines) == SelectSeq(lines, LAMBDA line : line # <<>>)

\* C11: after any sequence of loads LEAD_DATA holds the rows the most recent
\* load read, one per data line it got through and in file order, each under
\* the header's names, and nothing of an earlier load; after a load that found
\* no file or could not open it LEAD_DATA is empty.
C11_LeadDataIsLastLoad ==
    LET read == DataLines(LinesRead(leadsCsv))
    IN  /\ Len(LEAD_DATA) = Len(read)
        /\ \A i \in 1..Len(read) :
              /\ DOMAIN LEAD_DATA[i] = Range(leadsCsv.header)
              /\ \A j \in 1..Len(leadsCsv.header) :
                    LEAD_DATA[i][leadsCsv.header[j]] =
                        (IF j <= Len(read[i]) THEN Field(read[i][j]) ELSE None)
        /\ (~leadsCsv.exists \/ ~leadsCsv.opens) => LEAD_DATA = <<>>

\* a load that found no file, after a load that had filled the list
C11_Witness ==
    /\ event.kind = "load" /\ event.exc = "FileNotFoundError"
    /\ Len(listbox_leads) = MaxLeads
    /\ LEAD_DATA = <<>>

\* the selection the last callback met names no row of LEAD_DATA
NoSuchRow(ev, data) ==
    /\ ev.kind = "select"
    /\ (ev.cursel = <<>> \/ ev.cursel[1] >= Len(data))

\* C12: generate_email_on_click with no selection, or with an index at or
\* beyond len(LEAD_DATA), sets the status to "Please select a lead to
\* generate the email.", raises nothing, and leaves the output box and
\* LEAD_DATA as they were.
C12_NoSuchRowAsksToSelect ==
    [][NoSuchRow(event', LEAD_DATA) =>
          /\ label_status' = <<"Status: ", "Please select a lead to generate the email.">>
          /\ ~event'.raised
          /\ text_output' = text_output
          /\ LEAD_DATA' = LEAD_DATA]_vars

\* an entry was clicked whose index is beyond LEAD_DATA, with an email of an
\* earlier click in the output box
C12_Witness ==
    /\ NoSuchRow(event, LEAD_DATA)
    /\ event.cursel # <<>>
    /\ text_output # <<>>
    /\ label_status = UpdateStatus(MsgPleaseSelect)

\* C13 (as claimed): after any sequence of loads the listbox has one entry
\* per row of LEAD_DATA, in order, entry i showing the Business_Name of row i.
C13_ListboxMatchesLeadData ==
    /\ Len(listbox_leads) = Len(LEAD_DATA)
    /\ \A i \in 1..Len(LEAD_DATA) :
          "Business_Name" \in DOMAIN LEAD_DATA[i] =>
              listbox_leads[i] = <<ToString(i), ". ">> \o Fmt(LEAD_DATA[i]["Business_Name"])

\* C14 (as claimed): after the topic button ran with a non-empty topic T and
\* the write went through, hustle_topic.txt holds T trimmed, and a topic tool
\* called next with an empty input works on T.
C14_TopicFileHoldsExplicitTopic ==
    (last.tool = "topic" /\ last.input # <<>> /\ disk = "ok") =>
        /\ topicFile = File(Strip(last.input))
        /\ \A tool \in TopicTools :
              FnTopicTool(tool, <<>>, "text").topic = Strip(last.input)

====
